---- MODULE Spec2Model ----
(***************************************************************************)
(* Model of backend/lambda_handler.py: the AWS Lambda entry point that     *)
(* classifies an inbound event, rewrites it into API Gateway v2 form,      *)
(* answers health checks itself, hands every other request to the Mangum   *)
(* adapter and reports CloudWatch metrics.                                 *)
(*                                                                         *)
(* Python values are modelled as tagged records (one shape for every JSON  *)
(* value), Python dicts as ordered sequences of <<key, value>> pairs,      *)
(* json.dumps and str() as the string functions they are, and a raised     *)
(* exception as a value carrying the exception's type name.                *)
(***************************************************************************)
EXTENDS Integers, Sequences, FiniteSets, TLC

VARIABLES
    pc,            \* position of the process: module load steps, then idle/done
    dirs,          \* directories that exist under /tmp
    environ,       \* os.environ: variable name -> value, "" when unset
    fs_writable,   \* whether os.makedirs can create directories under /tmp
    setup_ok,      \* what setup_lambda_environment() returned at module load
    cloudwatch,    \* the module-level CloudWatch client: "absent", "raising", "ok"
    handler,       \* the module-level adapter: "mangum" or "fallback"
    clock,         \* time.time(), whole seconds
    event,         \* the event of the current invocation
    context,       \* the context of the current invocation
    adapter,       \* what the wrapped application did in the current invocation
    outcome        \* everything the current invocation did and returned

vars == <<pc, dirs, environ, fs_writable, setup_ok, cloudwatch, handler, clock,
          event, context, adapter, outcome>>

-----------------------------------------------------------------------------
(* Python values *)

JStr(s)    == [t |-> "str",   s |-> s,  n |-> 0, kv |-> <<>>]
JNum(n)    == [t |-> "num",   s |-> "", n |-> n, kv |-> <<>>]
JFloat(n)  == [t |-> "float", s |-> "", n |-> n, kv |-> <<>>]
JBool(b)   == [t |-> "bool",  s |-> "", n |-> IF b THEN 1 ELSE 0, kv |-> <<>>]
JNull      == [t |-> "null",  s |-> "", n |-> 0, kv |-> <<>>]
JDict(kv)  == [t |-> "dict",  s |-> "", n |-> 0, kv |-> kv]
JList(kv)  == [t |-> "list",  s |-> "", n |-> 0, kv |-> kv]
\* a key that a dict literal or an event does not carry
Absent     == [t |-> "absent", s |-> "", n |-> 0, kv |-> <<>>]

\* a dict from candidate pairs, the absent ones left out
MkDict(pairs) == JDict(SelectSeq(pairs, LAMBDA p : p[2] # Absent))

\* `k in d` for a dict d
Has(d, k) == \E i \in 1..Len(d.kv) : d.kv[i][1] = k
\* d[k] for a key that d has
Get(d, k) == d.kv[CHOOSE i \in 1..Len(d.kv) : d.kv[i][1] = k][2]
\* d.get(k, default)
GetOr(d, k, default) == IF Has(d, k) THEN Get(d, k) ELSE default

RECURSIVE Dumps(_)
RECURSIVE DumpsItems(_, _, _)
\* the members of a dict (asDict) or list, joined with ", "
DumpsItems(kv, i, asDict) ==
    IF i > Len(kv) THEN ""
    ELSE (IF i > 1 THEN ", " ELSE "")
         \o (IF asDict THEN "\"" \o kv[i][1] \o "\": " ELSE "")
         \o Dumps(kv[i][2])
         \o DumpsItems(kv, i + 1, asDict)
\* json.dumps(v) with the default separators; no string of the model needs escaping
Dumps(v) ==
    CASE v.t = "str"   -> "\"" \o v.s \o "\""
      [] v.t = "num"   -> ToString(v.n)
      [] v.t = "float" -> ToString(v.n) \o ".0"
      [] v.t = "bool"  -> IF v.n = 1 THEN "true" ELSE "false"
      [] v.t = "null"  -> "null"
      [] v.t = "dict"  -> "{" \o DumpsItems(v.kv, 1, TRUE) \o "}"
      [] v.t = "list"  -> "[" \o DumpsItems(v.kv, 1, FALSE) \o "]"

RECURSIVE PyRepr(_)
RECURSIVE PyReprItems(_, _, _)
PyReprItems(kv, i, asDict) ==
    IF i > Len(kv) THEN ""
    ELSE (IF i > 1 THEN ", " ELSE "")
         \o (IF asDict THEN "'" \o kv[i][1] \o "': " ELSE "")
         \o PyRepr(kv[i][2])
         \o PyReprItems(kv, i + 1, asDict)
\* repr(v)
PyRepr(v) ==
    CASE v.t = "str"   -> "'" \o v.s \o "'"
      [] v.t = "num"   -> ToString(v.n)
      [] v.t = "float" -> ToString(v.n) \o ".0"
      [] v.t = "bool"  -> IF v.n = 1 THEN "True" ELSE "False"
      [] v.t = "null"  -> "None"
      [] v.t = "dict"  -> "{" \o PyReprItems(v.kv, 1, TRUE) \o "}"
      [] v.t = "list"  -> "[" \o PyReprItems(v.kv, 1, FALSE) \o "]"
\* str(v), and {v} in an f-string
PyStr(v) == IF v.t = "str" THEN v.s ELSE PyRepr(v)

\* type(v).__name__
TypeName(v) ==
    CASE v.t = "str" -> "str" [] v.t = "num" -> "int" [] v.t = "float" -> "float"
      [] v.t = "bool" -> "bool" [] v.t = "null" -> "NoneType"
      [] v.t = "dict" -> "dict" [] v.t = "list" -> "list"

\* a computation that returned v, and one that raised an exception of type e
\* (msg is str(e) of the exception)
Ret(v)        == [exc |-> "none", msg |-> "", val |-> v]
Raise(e, msg) == [exc |-> e, msg |-> msg, val |-> Absent]

-----------------------------------------------------------------------------
(* The clock *)

\* largest value of time.time() (whole seconds) in the model
MaxClock == 1

\* time.strftime('%d/%b/%Y:%H:%M:%S +0000', time.gmtime()), for the first seconds of the epoch
StrfTime == "01/Jan/1970:00:00:0" \o ToString(clock) \o " +0000"
\* int(time.time() * 1000)
TimeMillis == clock * 1000

-----------------------------------------------------------------------------
(* Inbound events: every combination of the keys the handler reads *)

Versions == {Absent, JStr("2.0"), JStr("1.0")}
HttpOf(method, path) == JDict(<< <<"method", JStr(method)>>, <<"path", JStr(path)>> >>)
RequestContexts ==
    { Absent,
      JNull,
      JDict(<<>>),
      JDict(<< <<"elb", JDict(<< <<"targetGroupArn", JStr("arn")>> >>)>> >>),
      JDict(<< <<"http", HttpOf("GET", "/health")>> >>),
      JDict(<< <<"http", HttpOf("POST", "/api/emotion")>>,
               <<"requestId", JStr("gw-1")>> >>) }
HttpMethods == {Absent, JStr("GET")}
Methods == {Absent, JStr("PUT")}
EventPaths == {Absent, JStr("/health"), JStr("/"), JStr("/api/transcribe")}
Bodies == { Absent, JNull, JStr("raw text"),
            JDict(<< <<"text", JStr("hello")>> >>) }
\* the fields only an API Gateway v2 or Function URL event carries
RouteFields == { <<Absent, Absent>>, <<JStr("$default"), JStr("/health")>> }
Base64Flags == {Absent, JBool(TRUE)}

Event(v, rf, hm, m, p, rc, b, b64) ==
    MkDict(<< <<"version", v>>, <<"routeKey", rf[1]>>, <<"rawPath", rf[2]>>,
              <<"httpMethod", hm>>, <<"method", m>>, <<"path", p>>,
              <<"requestContext", rc>>, <<"body", b>>,
              <<"isBase64Encoded", b64>> >>)

\* every combination of the keys that decide the kind, the method and the path
KeyEvents ==
    { Event(v, <<Absent, Absent>>, hm, m, p, rc, Absent, Absent) :
        v \in Versions, hm \in HttpMethods, m \in Methods,
        p \in EventPaths, rc \in RequestContexts }

\* one shape per kind: <<version, httpMethod, path, requestContext>>
Shapes ==
    { <<JStr("2.0"), Absent, Absent, JDict(<< <<"http", HttpOf("POST", "/api/emotion")>> >>)>>,
      <<Absent, JStr("GET"), JStr("/api/transcribe"), JDict(<<>>)>>,
      <<Absent, Absent, JStr("/api/transcribe"),
        JDict(<< <<"elb", JDict(<< <<"targetGroupArn", JStr("arn")>> >>)>> >>)>>,
      <<Absent, Absent, Absent, JDict(<< <<"http", HttpOf("POST", "/api/emotion")>> >>)>>,
      <<Absent, Absent, Absent, Absent>> }

\* every combination of the payload fields, on each shape
PayloadEvents ==
    { Event(sh[1], rf, sh[2], Absent, sh[3], sh[4], b, b64) :
        sh \in Shapes, rf \in RouteFields, b \in Bodies, b64 \in Base64Flags }

\* the fields the conversions copy without reading them
CopiedFields ==
    << <<"headers", JDict(<< <<"x-api-key", JStr("k-1")>> >>)>>,
       <<"pathParameters", JDict(<< <<"id", JStr("7")>> >>)>> >>

\* the payload events again, carrying headers and path parameters
HeaderEvents == { JDict(ev.kv \o CopiedFields) : ev \in PayloadEvents }

\* API Gateway v2 events that carry routeKey and rawPath and no http sub-object
RawPathEvents ==
    { MkDict(<< <<"version", JStr("2.0")>>, <<"routeKey", JStr("GET " \o p)>>,
                <<"rawPath", JStr(p)>>, <<"requestContext", rc>> >>) :
        p \in {"/health", "/api/transcribe"}, rc \in {Absent, JDict(<<>>)} }

Events == KeyEvents \cup PayloadEvents \cup HeaderEvents \cup RawPathEvents

-----------------------------------------------------------------------------
(* Classification and normalization *)

\* `k in v`: a key test on a dict, a TypeError on None, a number or a bool
Contains(v, k) ==
    CASE v.t = "dict" -> Ret(Has(v, k))
      [] v.t = "list" -> Ret(\E i \in 1..Len(v.kv) : v.kv[i][2] = JStr(k))
      [] v.t \in {"null", "num", "float", "bool"} ->
            Raise("TypeError", "argument of type '" \o TypeName(v) \o "' is not iterable")

\* detect_event_type with the ALB test moved ahead of the API Gateway v1 test
detect_event_type_alb_first(ev) ==
    IF Has(ev, "version") /\ Get(ev, "version") = JStr("2.0")
    THEN Ret("api_gateway_v2")
    ELSE IF ~Has(ev, "requestContext")
    THEN Ret("direct_invocation")
    ELSE LET elb == Contains(Get(ev, "requestContext"), "elb") IN
         IF elb.exc # "none" THEN elb
         ELSE IF elb.val THEN Ret("alb")
         ELSE IF Has(ev, "httpMethod") THEN Ret("api_gateway_v1")
         ELSE LET http == Contains(Get(ev, "requestContext"), "http") IN
              IF http.exc # "none" THEN http
              ELSE IF http.val THEN Ret("lambda_function_url")
              ELSE Ret("direct_invocation")

\* lines 201-220
detect_event_type(ev) ==
    IF Has(ev, "version") /\ Get(ev, "version") = JStr("2.0")
    THEN Ret("api_gateway_v2")
    ELSE IF Has(ev, "requestContext") /\ Has(ev, "httpMethod")
    THEN Ret("api_gateway_v1")
    ELSE IF ~Has(ev, "requestContext")
    THEN Ret("direct_invocation")
    ELSE LET elb == Contains(Get(ev, "requestContext"), "elb") IN
         IF elb.exc # "none" THEN elb
         ELSE IF elb.val THEN Ret("alb")
         ELSE LET http == Contains(Get(ev, "requestContext"), "http") IN
              IF http.exc # "none" THEN http
              ELSE IF http.val THEN Ret("lambda_function_url")
              ELSE Ret("direct_invocation")

\* direct_body without the serialization of a dict body
direct_body_unserialized(ev) ==
    IF Has(ev, "body") /\ Get(ev, "body").t \in {"dict", "str"}
    THEN Get(ev, "body")
    ELSE JStr(Dumps(ev))

\* lines 154-160: the body of a converted event
direct_body(ev) ==
    IF Has(ev, "body") /\ Get(ev, "body").t = "dict"
    THEN JStr(Dumps(Get(ev, "body")))
    ELSE IF Has(ev, "body") /\ Get(ev, "body").t = "str"
    THEN Get(ev, "body")
    ELSE JStr(Dumps(ev))

\* lines 146-199
create_api_gateway_v2_event(ev) ==
    LET path   == GetOr(ev, "path", JStr("/api/process-audio"))
        method == GetOr(ev, "httpMethod", GetOr(ev, "method", JStr("POST")))
        body   == direct_body(ev)
        routeKey == JStr(PyStr(method) \o " " \o PyStr(path))
    IN JDict(<<
        <<"version", JStr("2.0")>>,
        <<"routeKey", routeKey>>,
        <<"rawPath", path>>,
        <<"rawQueryString", GetOr(ev, "queryStringParameters", JStr(""))>>,
        <<"cookies", GetOr(ev, "cookies", JList(<<>>))>>,
        <<"headers", GetOr(ev, "headers", JDict(<<
            <<"content-type", JStr("application/json")>>,
            <<"accept", JStr("application/json")>> >>))>>,
        <<"queryStringParameters", GetOr(ev, "queryStringParameters", JDict(<<>>))>>,
        <<"requestContext", JDict(<<
            <<"accountId", JStr("123456789012")>>,
            <<"apiId", JStr("test-api")>>,
            <<"domainName", JStr("test.execute-api.us-east-1.amazonaws.com")>>,
            <<"domainPrefix", JStr("test")>>,
            <<"http", JDict(<<
                <<"method", method>>,
                <<"path", path>>,
                <<"protocol", JStr("HTTP/1.1")>>,
                <<"sourceIp", JStr("127.0.0.1")>>,
                <<"userAgent", JStr("aws-lambda-python/3.11")>> >>)>>,
            <<"requestId", JStr("test-" \o ToString(clock) \o "-"
                                \o ToString(TimeMillis % 1000))>>,
            <<"routeKey", routeKey>>,
            <<"stage", JStr("$default")>>,
            <<"time", JStr(StrfTime)>>,
            <<"timeEpoch", JNum(TimeMillis)>> >>)>>,
        <<"body", body>>,
        <<"pathParameters", GetOr(ev, "pathParameters", JDict(<<>>))>>,
        <<"isBase64Encoded", GetOr(ev, "isBase64Encoded", JBool(FALSE))>>,
        <<"stageVariables", GetOr(ev, "stageVariables", JDict(<<>>))>> >>)

\* v[k]: the member of a dict, a KeyError when it has none, a TypeError on a non-dict
Subscript(v, k) ==
    IF v.t = "dict"
    THEN IF Has(v, k) THEN Ret(Get(v, k)) ELSE Raise("KeyError", "'" \o k \o "'")
    ELSE Raise("TypeError", "'" \o TypeName(v) \o "' object is not subscriptable")

\* v.get(k, default): AttributeError on a value that is no dict
DotGet(v, k, default) ==
    IF v.t = "dict" THEN Ret(GetOr(v, k, default))
    ELSE Raise("AttributeError", "'" \o TypeName(v) \o "' object has no attribute 'get'")

\* v1_route_key without the method
v1_route_key_path_only(method, path) == JStr(PyStr(path))

\* line 245: f"{event['httpMethod']} {event['path']}"
v1_route_key(method, path) == JStr(PyStr(method) \o " " \o PyStr(path))

\* the api_gateway_v1 branch of lambda_handler: the dict literal, evaluated in order
api_gateway_v1_event(ev) ==
    LET method == Subscript(ev, "httpMethod")
        path   == Subscript(ev, "path")
        rc     == Get(ev, "requestContext")
        ident  == DotGet(rc, "identity", JDict(<<>>))
        srcIp  == DotGet(ident.val, "sourceIp", JStr("127.0.0.1"))
        agent  == DotGet(ident.val, "userAgent", JStr("unknown"))
    IN IF method.exc # "none" THEN method
       ELSE IF path.exc # "none" THEN path
       ELSE IF ident.exc # "none" THEN ident
       ELSE IF srcIp.exc # "none" THEN srcIp
       ELSE Ret(JDict(<<
           <<"version", JStr("2.0")>>,
           <<"routeKey", v1_route_key(method.val, path.val)>>,
           <<"rawPath", path.val>>,
           <<"rawQueryString", GetOr(ev, "queryStringParameters", JStr(""))>>,
           <<"headers", GetOr(ev, "headers", JDict(<<>>))>>,
           <<"queryStringParameters", GetOr(ev, "queryStringParameters", JDict(<<>>))>>,
           <<"requestContext", JDict(<<
               <<"http", JDict(<<
                   <<"method", method.val>>,
                   <<"path", path.val>>,
                   <<"protocol", JStr("HTTP/1.1")>>,
                   <<"sourceIp", srcIp.val>>,
                   <<"userAgent", agent.val>> >>)>>,
               <<"requestId", GetOr(rc, "requestId", JStr("unknown"))>>,
               <<"stage", GetOr(rc, "stage", JStr("$default"))>>,
               <<"time", GetOr(rc, "requestTime", JStr(StrfTime))>>,
               <<"timeEpoch", GetOr(rc, "requestTimeEpoch", JNum(TimeMillis))>> >>)>>,
           <<"body", GetOr(ev, "body", JStr(""))>>,
           <<"pathParameters", GetOr(ev, "pathParameters", JDict(<<>>))>>,
           <<"isBase64Encoded", GetOr(ev, "isBase64Encoded", JBool(FALSE))>> >>))

\* processed_event with alb events converted like direct invocations
processed_event_converting_alb(ev, event_type) ==
    IF event_type \in {"direct_invocation", "alb"} THEN Ret(create_api_gateway_v2_event(ev))
    ELSE IF event_type = "api_gateway_v1" THEN api_gateway_v1_event(ev)
    ELSE Ret(ev)

\* the event handed on to the adapter, by kind
processed_event(ev, event_type) ==
    IF event_type = "direct_invocation" THEN Ret(create_api_gateway_v2_event(ev))
    ELSE IF event_type = "api_gateway_v1" THEN api_gateway_v1_event(ev)
    ELSE Ret(ev)

\* http_method and path as the handler reads them off the processed event
request_details(pe) ==
    IF ~Has(pe, "requestContext")
    THEN Ret(<<GetOr(pe, "httpMethod", JStr("POST")),
               GetOr(pe, "path", JStr("/api/process-audio"))>>)
    ELSE LET inHttp == Contains(Get(pe, "requestContext"), "http") IN
         IF inHttp.exc # "none" THEN inHttp
         ELSE IF ~inHttp.val
         THEN Ret(<<GetOr(pe, "httpMethod", JStr("POST")),
                    GetOr(pe, "path", JStr("/api/process-audio"))>>)
         ELSE LET http   == Get(Get(pe, "requestContext"), "http")
                  method == Subscript(http, "method")
                  path   == Subscript(http, "path")
              IN IF method.exc # "none" THEN method
                 ELSE IF path.exc # "none" THEN path
                 ELSE Ret(<<method.val, path.val>>)

-----------------------------------------------------------------------------
(* Paths: TLC cannot look inside a string, so the split of every path the   *)
(* model's events can carry is tabulated.                                  *)

\* path.split('/')
Split(p) ==
    CASE p = "/"                  -> <<"", "">>
      [] p = "/health"            -> <<"", "health">>
      [] p = "/api/emotion"       -> <<"", "api", "emotion">>
      [] p = "/api/transcribe"    -> <<"", "api", "transcribe">>
      [] p = "/api/process-audio" -> <<"", "api", "process-audio">>

\* ('/' + word) in path; no segment of the model merely starts with a word
InPath(word, p) == \E i \in 2..Len(Split(p)) : Split(p)[i] = word

-----------------------------------------------------------------------------
(* The metrics reporter *)

\* one call of send_cloudwatch_metric; dimension values are str()-ed by the reporter
Sample(metric_name, unit, dimensions) ==
    [name |-> metric_name, unit |-> unit,
     dims |-> [i \in 1..Len(dimensions) |->
                  <<dimensions[i][1], PyStr(dimensions[i][2])>>]]

\* put_metric_data on the client: raises when the sink is unreachable
put_metric_data(cw, sample) ==
    IF cw = "raising" THEN Raise("ClientError", "sink unreachable") ELSE Ret(sample)

\* send_cloudwatch_metric without its try/except: a failing sink call escapes
send_cloudwatch_metric_unguarded(cw, metric_name, unit, dimensions) ==
    IF cw = "absent"
    THEN [exc |-> "none", msg |-> "", puts |-> <<>>]
    ELSE LET sample == Sample(metric_name, unit, dimensions)
             put    == put_metric_data(cw, sample)
         IN [exc |-> put.exc, msg |-> put.msg, puts |-> <<sample>>]

\* lines 119-144. exc: what escapes the reporter; puts: the calls it made on the client
send_cloudwatch_metric(cw, metric_name, unit, dimensions) ==
    IF cw = "absent"
    THEN [exc |-> "none", msg |-> "", puts |-> <<>>]
    ELSE LET sample == Sample(metric_name, unit, dimensions)
             put    == put_metric_data(cw, sample)
         IN \* except Exception: the failure is logged and swallowed
            [exc |-> "none", msg |-> "", puts |-> <<sample>>]

-----------------------------------------------------------------------------
(* The invocation context *)

Contexts == {"None", "LambdaContext", "Object", "BrokenTimer"}
\* `if context`
Truthy(ctx) == ctx # "None"
HasRequestId(ctx) == ctx \in {"LambdaContext", "BrokenTimer"}
\* hasattr(context, 'memory_limit_in_mb'), hasattr(context, 'get_remaining_time_in_millis')
HasTelemetry(ctx) == ctx \in {"LambdaContext", "BrokenTimer"}
\* context.get_remaining_time_in_millis()
get_remaining_time_in_millis(ctx) ==
    IF ctx = "BrokenTimer" THEN Raise("RuntimeError", "no deadline") ELSE Ret(JNum(1000))

\* line 227, outside the try block
request_id(ctx) ==
    IF ~Truthy(ctx) THEN Ret("unknown")
    ELSE IF HasRequestId(ctx) THEN Ret("req-1")
    ELSE Raise("AttributeError", "'object' object has no attribute 'aws_request_id'")

-----------------------------------------------------------------------------
(* The adapter *)

\* what the wrapped application can do with a request
Behaviours ==
    [exc : {"none"}, msg : {""}, status : {200, 307, 400}]
    \cup [exc : {"RuntimeError", "ValueError"}, msg : {"model failed"}, status : {0}]

\* a result: json is the value whose serialization body is
NoResult == [statusCode |-> 0, headers |-> Absent, body |-> "", json |-> Absent]

\* handler(processed_event, context): Mangum, or the fallback installed when Mangum(...)
\* failed, whose body reads the module-level name e that the except clause has unbound
call_handler(beh) ==
    IF handler = "fallback"
    THEN Raise("NameError", "name 'e' is not defined")
    ELSE IF beh.exc # "none" THEN Raise(beh.exc, beh.msg)
    ELSE Ret([statusCode |-> beh.status,
              headers |-> JDict(<< <<"content-type", JStr("application/json")>> >>),
              body |-> Dumps(JDict(<< <<"ok", JBool(TRUE)>> >>)),
              json |-> JDict(<< <<"ok", JBool(TRUE)>> >>)])

-----------------------------------------------------------------------------
(* lambda_handler, statement by statement.  A frame is the handler's       *)
(* locals together with the effects it has had; a statement leaves a frame *)
(* alone once an exception is in flight (exc) or the handler has returned   *)
(* (done).                                                                 *)

Frame0 ==
    [exc |-> "none", msg |-> "", done |-> FALSE, result |-> NoResult,
     caught |-> "none",        \* the exception the except block handled
     metrics |-> <<>>,         \* calls of send_cloudwatch_metric, in order
     puts |-> <<>>,            \* calls of put_metric_data on the client, in order
     adapter_calls |-> 0,      \* calls of handler(processed_event, context)
     adapter_event |-> Absent, \* the event the adapter was given
     adapter_raised |-> "none",\* the type of the exception the adapter raised
     event_type |-> "",        \* locals, "" or Absent while unassigned
     processed |-> Absent,
     http_method |-> Absent,
     path |-> Absent,
     response |-> NoResult,
     status_code |-> 0,
     is_success |-> FALSE]

Live(f) == f.exc = "none" /\ ~f.done
Fail(f, r) == [f EXCEPT !.exc = r.exc, !.msg = r.msg]

Emit(f, cw, metric_name, unit, dimensions) ==
    IF ~Live(f) THEN f
    ELSE LET r == send_cloudwatch_metric(cw, metric_name, unit, dimensions)
         IN [f EXCEPT !.metrics = Append(@, Sample(metric_name, unit, dimensions)),
                      !.puts = @ \o r.puts,
                      !.exc = r.exc, !.msg = r.msg]

\* lines 233-235
classify(f, ev) ==
    IF ~Live(f) THEN f
    ELSE LET et == detect_event_type(ev)
         IN IF et.exc # "none" THEN Fail(f, et) ELSE [f EXCEPT !.event_type = et.val]

\* lines 237-269
normalize(f, ev) ==
    IF ~Live(f) THEN f
    ELSE LET pe == processed_event(ev, f.event_type)
         IN IF pe.exc # "none" THEN Fail(f, pe) ELSE [f EXCEPT !.processed = pe.val]

\* lines 271-277
extract(f) ==
    IF ~Live(f) THEN f
    ELSE LET rd == request_details(f.processed)
         IN IF rd.exc # "none" THEN Fail(f, rd)
            ELSE [f EXCEPT !.http_method = rd.val[1], !.path = rd.val[2]]

\* lines 293-298
request_started(f, cw) ==
    IF ~Live(f) THEN f
    ELSE IF f.path.t # "str"
    THEN Fail(f, Raise("AttributeError",
                       "'" \o TypeName(f.path) \o "' object has no attribute 'split'"))
    ELSE Emit(f, cw, "RequestStarted", "Count", <<
             <<"Method", f.http_method>>,
             <<"Path", IF f.path.s # "/"
                       THEN JStr(Split(f.path.s)[Len(Split(f.path.s))])
                       ELSE JStr("root")>>,
             <<"EventType", JStr(f.event_type)>> >>)

\* os.getenv(name, default)
getenv(name, default) == IF environ[name] = "" THEN default ELSE environ[name]

HealthDirs == <<"/tmp/.cache/whisper", "/tmp/.cache/huggingface/hub", "/tmp/.cache/torch">>

\* lines 397-428
health_check(f, cw) ==
    LET g == Emit(f, cw, "HealthCheck", "Count", <<>>)
        cache_status == JDict([i \in 1..Len(HealthDirs) |->
            <<HealthDirs[i], JDict(<<
                <<"exists", JBool(HealthDirs[i] \in dirs)>>,
                <<"writable", JBool(HealthDirs[i] \in dirs /\ fs_writable)>> >>)>>])
        payload == JDict(<<
                    <<"status", JStr("healthy")>>,
                    <<"timestamp", JFloat(clock)>>,
                    <<"environment", JStr(getenv("ENVIRONMENT", "development"))>>,
                    <<"version", JStr("1.0.0")>>,
                    <<"cache_directories", cache_status>>,
                    <<"environment_variables", JDict(<<
                        <<"WHISPER_CACHE", JStr(getenv("WHISPER_CACHE", "not set"))>>,
                        <<"TRANSFORMERS_CACHE", JStr(getenv("TRANSFORMERS_CACHE", "not set"))>>,
                        <<"HF_HOME", JStr(getenv("HF_HOME", "not set"))>>,
                        <<"TORCH_HOME", JStr(getenv("TORCH_HOME", "not set"))>> >>)>> >>)
    IN IF ~Live(g) THEN g
       ELSE [g EXCEPT !.done = TRUE, !.result =
               [statusCode |-> 200,
                headers |-> JDict(<< <<"Content-Type", JStr("application/json")>>,
                                     <<"Access-Control-Allow-Origin", JStr("*")>> >>),
                body |-> Dumps(payload),
                json |-> payload]]

\* is_health_path without the root path
is_health_path_no_root(path) == path = JStr("/health")

\* line 301: the paths the handler answers itself
is_health_path(path) == path = JStr("/health") \/ path = JStr("/")

\* lines 300-302
health_shortcut(f, cw) ==
    IF ~Live(f) THEN f
    ELSE IF is_health_path(f.path) THEN health_check(f, cw)
    ELSE f

\* invoke_adapter calling the handler a second time when the first call raised
invoke_adapter_retrying(f, beh) ==
    IF ~Live(f) THEN f
    ELSE LET r == call_handler(beh)
             g == [f EXCEPT !.adapter_calls = @ + 1, !.adapter_event = f.processed]
         IN IF r.exc # "none"
            THEN Fail([g EXCEPT !.adapter_calls = @ + 1, !.adapter_raised = r.exc], r)
            ELSE [g EXCEPT !.response = r.val]

\* lines 304-310; callable(handler) holds of Mangum and of the fallback alike
invoke_adapter(f, beh) ==
    IF ~Live(f) THEN f
    ELSE LET r == call_handler(beh)
             g == [f EXCEPT !.adapter_calls = @ + 1, !.adapter_event = f.processed]
         IN IF r.exc # "none" THEN Fail([g EXCEPT !.adapter_raised = r.exc], r)
            ELSE [g EXCEPT !.response = r.val]

\* lines 312-338
success_metrics(f, cw) ==
    IF ~Live(f) THEN f
    ELSE LET status_code == f.response.statusCode
             is_success  == 200 <= status_code /\ status_code < 400
             g == [f EXCEPT !.status_code = status_code, !.is_success = is_success]
             outcome_dims == << <<"Method", f.http_method>>,
                                <<"StatusCode", JStr(ToString(status_code))>>,
                                <<"EventType", JStr(f.event_type)>> >>
             h == IF is_success
                  THEN Emit(g, cw, "APISuccess", "Count", outcome_dims)
                  ELSE Emit(g, cw, "APIError", "Count", outcome_dims)
         IN Emit(h, cw, "ProcessingTime", "Milliseconds", <<
                <<"Method", f.http_method>>,
                <<"Success", JBool(is_success)>>,
                <<"EventType", JStr(f.event_type)>> >>)

\* lines 340-348
endpoint_metrics(f, cw) ==
    IF ~Live(f) THEN f
    ELSE IF InPath("emotion", f.path.s) \/ InPath("process-audio", f.path.s)
    THEN Emit(f, cw, "EmotionAnalysisRequests", "Count", <<>>)
    ELSE IF InPath("speech", f.path.s) \/ InPath("transcribe", f.path.s)
    THEN Emit(f, cw, "SpeechToTextRequests", "Count", <<>>)
    ELSE IF InPath("wellness", f.path.s)
    THEN Emit(f, cw, "WellnessRequests", "Count", <<>>)
    ELSE IF InPath("health", f.path.s)
    THEN Emit(f, cw, "HealthCheckRequests", "Count", <<>>)
    ELSE f

\* lines 350-357
telemetry(f, ctx, cw) ==
    IF ~Live(f) THEN f
    ELSE LET g == IF Truthy(ctx) /\ HasTelemetry(ctx)
                  THEN Emit(f, cw, "MemoryLimit", "Megabytes", <<>>)
                  ELSE f
             remaining == get_remaining_time_in_millis(ctx)
         IN IF ~(Truthy(ctx) /\ HasTelemetry(ctx)) THEN g
            ELSE IF ~Live(g) THEN g
            ELSE IF remaining.exc # "none" THEN Fail(g, remaining)
            ELSE Emit(g, cw, "RemainingTime", "Milliseconds", <<>>)

\* lines 359-360
return_response(f) ==
    IF ~Live(f) THEN f ELSE [f EXCEPT !.done = TRUE, !.result = f.response]

\* lines 229-360: the body of the try statement
try_block(ev, ctx, beh, cw) ==
    return_response(
      telemetry(
        endpoint_metrics(
          success_metrics(
            invoke_adapter(
              health_shortcut(
                request_started(
                  extract(normalize(classify(Frame0, ev), ev)),
                  cw),
                cw),
              beh),
            cw),
          cw),
        ctx, cw))

\* error_body with str(e) as the message whatever the DEBUG variable
error_body_leaky(e, rid, event_type) ==
    JDict(<<
        <<"error", JStr("Internal server error")>>,
        <<"message", JStr(e.msg)>>,
        <<"requestId", JStr(rid)>>,
        <<"errorType", JStr(e.exc)>>,
        <<"eventType", JStr(event_type)>> >>)

\* error_body with a fixed error type in place of type(e).__name__
error_body_untyped(e, rid, event_type) ==
    JDict(<<
        <<"error", JStr("Internal server error")>>,
        <<"message", JStr(IF environ["DEBUG"] # "" THEN e.msg ELSE "An error occurred")>>,
        <<"requestId", JStr(rid)>>,
        <<"errorType", JStr("Exception")>>,
        <<"eventType", JStr(event_type)>> >>)

\* lines 388-394: the value serialized into the body of the error result
error_body(e, rid, event_type) ==
    JDict(<<
        <<"error", JStr("Internal server error")>>,
        <<"message", JStr(IF environ["DEBUG"] # "" THEN e.msg ELSE "An error occurred")>>,
        <<"requestId", JStr(rid)>>,
        <<"errorType", JStr(e.exc)>>,
        <<"eventType", JStr(event_type)>> >>)

\* lines 362-395: f carries the exception the try block raised
except_block(f, rid, cw) ==
    LET e == [exc |-> f.exc, msg |-> f.msg]
        g == [f EXCEPT !.exc = "none", !.msg = "", !.caught = e.exc]
        event_type == IF f.event_type = "" THEN "unknown" ELSE f.event_type
        h == Emit(Emit(g, cw, "APIError", "Count", <<
                      <<"Method", IF f.http_method = Absent THEN JStr("UNKNOWN")
                                  ELSE f.http_method>>,
                      <<"ErrorType", JStr(e.exc)>>,
                      <<"EventType", JStr(event_type)>> >>),
                  cw, "ErrorTime", "Milliseconds", <<>>)
    IN IF ~Live(h) THEN h
       ELSE [h EXCEPT !.done = TRUE, !.result =
               [statusCode |-> 500,
                headers |-> JDict(<<
                    <<"Content-Type", JStr("application/json")>>,
                    <<"Access-Control-Allow-Origin", JStr("*")>>,
                    <<"Access-Control-Allow-Methods", JStr("GET, POST, PUT, DELETE, OPTIONS")>>,
                    <<"Access-Control-Allow-Headers", JStr("Content-Type, Authorization")>> >>),
                body |-> Dumps(error_body(e, rid, event_type)),
                json |-> error_body(e, rid, event_type)]]

\* lines 222-395; the frame it ends in: done with a result, or exc escaping to the caller
lambda_handler(ev, ctx, beh, cw) ==
    LET rid == request_id(ctx)
    IN IF rid.exc # "none" THEN Fail(Frame0, rid)
       ELSE LET f == try_block(ev, ctx, beh, cw)
            IN IF f.exc = "none" THEN f ELSE except_block(f, rid.val, cw)

-----------------------------------------------------------------------------
(* Module load *)

cache_dirs ==
    << "/tmp/.cache", "/tmp/.cache/whisper", "/tmp/.cache/huggingface",
       "/tmp/.cache/huggingface/hub", "/tmp/.cache/torch", "/tmp/.cache/transformers" >>

env_vars ==
    << <<"WHISPER_CACHE", "/tmp/.cache/whisper">>,
       <<"TRANSFORMERS_CACHE", "/tmp/.cache/huggingface/hub">>,
       <<"HF_HOME", "/tmp/.cache/huggingface">>,
       <<"TORCH_HOME", "/tmp/.cache/torch">>,
       <<"XDG_CACHE_HOME", "/tmp/.cache">>,
       <<"WHISPER_MODEL_PATH", "/tmp/.cache/whisper">>,
       <<"HUGGINGFACE_HUB_CACHE", "/tmp/.cache/huggingface/hub">>,
       <<"TRANSFORMERS_OFFLINE", "0">>,
       <<"HF_DATASETS_CACHE", "/tmp/.cache/huggingface/datasets">> >>

EnvNames == {env_vars[i][1] : i \in 1..Len(env_vars)} \cup {"DEBUG", "ENVIRONMENT"}

RECURSIVE makedirs_from_no_exist_ok(_, _, _)
\* makedirs_from with exist_ok left out: an existing directory is an error
makedirs_from_no_exist_ok(i, ds, writable) ==
    IF i > Len(cache_dirs) THEN [exc |-> "none", dirs |-> ds]
    ELSE IF cache_dirs[i] \in ds THEN [exc |-> "FileExistsError", dirs |-> ds]
    ELSE IF writable
    THEN makedirs_from_no_exist_ok(i + 1, ds \cup {cache_dirs[i]}, writable)
    ELSE [exc |-> "OSError", dirs |-> ds]

RECURSIVE makedirs_from(_, _, _)
\* the loop of os.makedirs(cache_dir, exist_ok=True) from the i-th directory on:
\* creating a directory that does not exist yet fails on a filesystem that is not writable
makedirs_from(i, ds, writable) ==
    IF i > Len(cache_dirs) THEN [exc |-> "none", dirs |-> ds]
    ELSE IF cache_dirs[i] \in ds THEN makedirs_from(i + 1, ds, writable)
    ELSE IF writable THEN makedirs_from(i + 1, ds \cup {cache_dirs[i]}, writable)
    ELSE [exc |-> "OSError", dirs |-> ds]

\* lines 43-45: os.environ after the loop over env_vars
set_env_vars(env) ==
    [k \in EnvNames |->
        IF \E i \in 1..Len(env_vars) : env_vars[i][1] = k
        THEN env_vars[CHOOSE i \in 1..Len(env_vars) : env_vars[i][1] = k][2]
        ELSE env[k]]

\* setup_lambda_environment without its try/except: a filesystem error escapes
setup_lambda_environment_unguarded(ds, env, writable) ==
    LET made == makedirs_from(1, ds, writable)
    IN IF made.exc # "none"
       THEN [dirs |-> made.dirs, environ |-> env, returned |-> FALSE, exc |-> made.exc]
       ELSE [dirs |-> made.dirs, environ |-> set_env_vars(env), returned |-> TRUE,
             exc |-> "none"]

\* lines 13-52: the directories and environment it leaves, what it returns, and the
\* exception that escapes it (none: except Exception on line 50 returns False)
setup_lambda_environment(ds, env, writable) ==
    LET made == makedirs_from(1, ds, writable)
    IN IF made.exc # "none"
       THEN [dirs |-> made.dirs, environ |-> env, returned |-> FALSE, exc |-> "none"]
       ELSE [dirs |-> made.dirs, environ |-> set_env_vars(env), returned |-> TRUE,
             exc |-> "none"]

-----------------------------------------------------------------------------
(* The process *)

NoOutcome == Frame0

\* the adapter was not called, or was the fallback, which no behaviour scripts
NotCalled == [exc |-> "not_called", msg |-> "", status |-> 0]

\* the behaviour handed to a run that never reaches the wrapped application
Unscripted == [exc |-> "none", msg |-> "", status |-> 200]

Init ==
    /\ pc = "setup"
    /\ dirs = {}
    /\ \E debug \in {"", "1"} :
          environ = [k \in EnvNames |-> IF k = "DEBUG" THEN debug ELSE ""]
    /\ fs_writable \in BOOLEAN
    /\ setup_ok = FALSE
    /\ cloudwatch = "absent"
    /\ handler = "mangum"
    /\ clock = 0
    /\ event = JDict(<<>>)
    /\ context = "None"
    /\ adapter = NotCalled
    /\ outcome = NoOutcome

\* line 55
SetupLambdaEnvironment ==
    /\ pc = "setup"
    /\ LET r == setup_lambda_environment(dirs, environ, fs_writable)
       IN /\ dirs' = r.dirs
          /\ environ' = r.environ
          /\ setup_ok' = r.returned
          \* an exception escaping line 55 ends the import of the module
          /\ pc' = IF r.exc = "none" THEN "clients" ELSE "crashed"
    /\ UNCHANGED <<fs_writable, cloudwatch, handler, clock, event, context, adapter, outcome>>

\* lines 57-63: boto3.client('cloudwatch') fails, or gives a client whose sink is
\* reachable or not
InitCloudwatch ==
    /\ pc = "clients"
    /\ cloudwatch' \in {"absent", "raising", "ok"}
    /\ pc' = "adapter"
    /\ UNCHANGED <<dirs, environ, fs_writable, setup_ok, handler, clock, event, context,
                   adapter, outcome>>

\* lines 83-117: Mangum(app, ...) succeeds, or fails and the fallback is installed
CreateHandler ==
    /\ pc = "adapter"
    /\ handler' \in {"mangum", "fallback"}
    /\ pc' = "idle"
    /\ UNCHANGED <<dirs, environ, fs_writable, setup_ok, cloudwatch, clock, event, context,
                   adapter, outcome>>

\* Invoke with a handler that writes a cache variable on every call
Invoke_writing_environ(ev, ctx) ==
    /\ pc = "idle"
    /\ LET f == lambda_handler(ev, ctx, Unscripted, cloudwatch)
       IN IF f.adapter_calls = 0 \/ handler # "mangum"
          THEN /\ outcome' = f
               /\ adapter' = NotCalled
          ELSE \E beh \in Behaviours :
               /\ outcome' = lambda_handler(ev, ctx, beh, cloudwatch)
               /\ adapter' = beh
    /\ event' = ev
    /\ context' = ctx
    /\ pc' = "done"
    /\ environ' = [environ EXCEPT !["TRANSFORMERS_OFFLINE"] = "1"]
    /\ UNCHANGED <<dirs, fs_writable, setup_ok, cloudwatch, handler, clock>>

\* the runtime calls lambda_handler(event, context); when the run reaches the wrapped
\* application, what that does is any of Behaviours
Invoke(ev, ctx) ==
    /\ pc = "idle"
    /\ LET f == lambda_handler(ev, ctx, Unscripted, cloudwatch)
       IN IF f.adapter_calls = 0 \/ handler # "mangum"
          THEN /\ outcome' = f
               /\ adapter' = NotCalled
          ELSE \E beh \in Behaviours :
               /\ outcome' = lambda_handler(ev, ctx, beh, cloudwatch)
               /\ adapter' = beh
    /\ event' = ev
    /\ context' = ctx
    /\ pc' = "done"
    /\ UNCHANGED <<dirs, environ, fs_writable, setup_ok, cloudwatch, handler, clock>>

\* the runtime takes the result (or the escaped exception); time passes
Deliver ==
    /\ pc = "done"
    /\ pc' = "idle"
    /\ clock' = IF clock < MaxClock THEN clock + 1 ELSE clock
    /\ event' = JDict(<<>>)
    /\ context' = "None"
    /\ adapter' = NotCalled
    /\ outcome' = NoOutcome
    /\ UNCHANGED <<dirs, environ, fs_writable, setup_ok, cloudwatch, handler>>

Next ==
    \/ SetupLambdaEnvironment
    \/ InitCloudwatch
    \/ CreateHandler
    \/ \E ev \in Events, ctx \in Contexts : Invoke(ev, ctx)
    \/ Deliver

Spec == Init /\ [][Next]_vars

-----------------------------------------------------------------------------
(* setup_lambda_environment on its own: any state of /tmp and of the        *)
(* environment before the first call, and a second call after it.          *)

\* the directory a cache directory lies in
ParentDir(d) ==
    CASE d = "/tmp/.cache" -> "/tmp"
      [] d = "/tmp/.cache/huggingface/hub" -> "/tmp/.cache/huggingface"
      [] OTHER -> "/tmp/.cache"

\* the sets of cache directories a filesystem can hold: none without its parent
DirStates ==
    { ds \in SUBSET {cache_dirs[i] : i \in 1..Len(cache_dirs)} :
        \A d \in ds : ParentDir(d) = "/tmp" \/ ParentDir(d) \in ds }

InitSetup ==
    /\ pc = "setup"
    /\ dirs \in DirStates
    /\ \E debug \in {"", "1"}, whisper \in {"", "/opt/whisper"} :
          environ = [k \in EnvNames |-> CASE k = "DEBUG" -> debug
                                           [] k = "WHISPER_CACHE" -> whisper
                                           [] OTHER -> ""]
    /\ fs_writable \in BOOLEAN
    /\ setup_ok = FALSE
    /\ cloudwatch = "absent"
    /\ handler = "mangum"
    /\ clock = 0
    /\ event = JDict(<<>>)
    /\ context = "None"
    /\ adapter = NotCalled
    /\ outcome = NoOutcome

\* setup_lambda_environment() called once more, after the call of line 55
SetupAgain ==
    /\ pc = "clients"
    /\ LET r == setup_lambda_environment(dirs, environ, fs_writable)
       IN /\ dirs' = r.dirs
          /\ environ' = r.environ
          /\ setup_ok' = r.returned
          /\ pc' = IF r.exc = "none" THEN "twice" ELSE "crashed"
    /\ UNCHANGED <<fs_writable, cloudwatch, handler, clock, event, context, adapter, outcome>>

NextSetup == SetupLambdaEnvironment \/ SetupAgain

SpecSetup == InitSetup /\ [][NextSetup]_vars

-----------------------------------------------------------------------------
(* Properties *)

\* an invocation has ended: with a result, or with an exception given to the caller
Ended    == pc = "done"
Returned == pc = "done" /\ outcome.done
Escaped  == pc = "done" /\ ~outcome.done

\* how often the invocation called send_cloudwatch_metric with this metric name
MetricCount(name) ==
    Cardinality({i \in 1..Len(outcome.metrics) : outcome.metrics[i].name = name})
\* how often it handed a sample of this name to the client's put_metric_data
PutCount(name) ==
    Cardinality({i \in 1..Len(outcome.puts) : outcome.puts[i].name = name})

HealthPaths == {JStr("/health"), JStr("/")}

\* C1: every invocation, whatever the event and the context, ends by returning a
\* result with an integer status code, a headers mapping and a string body; no
\* exception reaches the caller.
C1_AlwaysReturnsResult ==
    Ended => /\ outcome.done
             /\ outcome.result.statusCode \in 100..599
             /\ outcome.result.headers.t = "dict"
             /\ outcome.result.body \in STRING

C3_OutcomeAndTimingMetrics ==
    Returned =>
        /\ (outcome.result.statusCode \in 200..399 => MetricCount("APISuccess") >= 1)
        /\ (outcome.result.statusCode >= 400 => MetricCount("APIError") >= 1)
        /\ MetricCount("ProcessingTime") = 1

\* C4: when the adapter raises, the handler returns status 500 with a JSON body
\* carrying a non-empty requestId and the exception's type name as errorType, and
\* APIError is emitted exactly once (one call of the reporter, and one sample
\* handed to the client when there is a client).
C4_AdapterExceptionBecomes500 ==
    (Ended /\ outcome.adapter_raised # "none") =>
        /\ outcome.done
        /\ outcome.result.statusCode = 500
        /\ outcome.result.body = Dumps(outcome.result.json)
        /\ Has(outcome.result.json, "requestId")
        /\ Get(outcome.result.json, "requestId").t = "str"
        /\ Get(outcome.result.json, "requestId").s # ""
        /\ Has(outcome.result.json, "errorType")
        /\ Get(outcome.result.json, "errorType") = JStr(outcome.adapter_raised)
        /\ MetricCount("APIError") = 1
        /\ PutCount("APIError") = IF cloudwatch = "absent" THEN 0 ELSE 1

C4_Witness ==
    /\ Returned
    /\ adapter.exc = "ValueError"
    /\ outcome.adapter_raised = "ValueError"
    /\ outcome.result.statusCode = 500
    /\ context = "LambdaContext"

Sinks == {"absent", "raising", "ok"}

\* the current invocation again, with another metrics sink
Replay(cw) ==
    lambda_handler(event, context, IF adapter = NotCalled THEN Unscripted ELSE adapter, cw)

\* C5: the invocation ends the same way, with the same result, whether the
\* CloudWatch client is absent, raises on every put_metric_data or succeeds; the
\* reporter never raises, and with an absent client it makes no sink call.
C5_ResultIndependentOfSink ==
    Ended =>
        \A cw \in Sinks :
            LET r == Replay(cw)
            IN /\ r.done = outcome.done
               /\ r.exc = outcome.exc
               /\ r.result = outcome.result
               /\ \A i \in 1..Len(r.metrics) :
                     send_cloudwatch_metric(cw, r.metrics[i].name, r.metrics[i].unit,
                                            <<>>).exc = "none"
               /\ (cw = "absent" => r.puts = <<>>)

C5_Witness ==
    /\ Returned
    /\ cloudwatch = "raising"
    /\ Len(outcome.puts) >= 3
    /\ outcome.result.statusCode = 200
    /\ outcome.adapter_calls = 1

\* the keys the classification rule reads, off the inbound event
IsV2      == Has(event, "version") /\ Get(event, "version") = JStr("2.0")
HasContextAndMethod == Has(event, "requestContext") /\ Has(event, "httpMethod")
ContextHas(k) ==
    /\ Has(event, "requestContext")
    /\ Get(event, "requestContext").t = "dict"
    /\ Has(Get(event, "requestContext"), k)

\* C6: the kind detect_event_type returns is the first match of: version "2.0" ->
\* api_gateway_v2; requestContext and a top-level httpMethod -> api_gateway_v1;
\* requestContext.elb -> alb; requestContext.http -> function URL; otherwise
\* direct_invocation.
C6_ClassificationFollowsOrderedRule ==
    (Ended /\ outcome.event_type # "") =>
        /\ IsV2 => outcome.event_type = "api_gateway_v2"
        /\ (~IsV2 /\ HasContextAndMethod) => outcome.event_type = "api_gateway_v1"
        /\ (~IsV2 /\ ~HasContextAndMethod /\ ContextHas("elb")) =>
              outcome.event_type = "alb"
        /\ (~IsV2 /\ ~HasContextAndMethod /\ ~ContextHas("elb") /\ ContextHas("http")) =>
              outcome.event_type = "lambda_function_url"
        /\ (~IsV2 /\ ~HasContextAndMethod /\ ~ContextHas("elb") /\ ~ContextHas("http")) =>
              outcome.event_type = "direct_invocation"

C6_Witness ==
    /\ Ended
    /\ outcome.event_type = "api_gateway_v1"
    /\ ContextHas("elb")
    /\ Has(event, "version")

\* C7: the event given to the adapter has a routeKey equal to "<METHOD> <PATH>",
\* the method and path being those the handler extracted, for every kind.
C7_RouteKeyIsMethodAndPath ==
    (Ended /\ outcome.adapter_calls = 1) =>
        /\ Has(outcome.adapter_event, "routeKey")
        /\ Get(outcome.adapter_event, "routeKey") =
              JStr(PyStr(outcome.http_method) \o " " \o PyStr(outcome.path))

\* C8: the body of the event given to the adapter is a string, for every kind and
\* every type of the inbound body.
C8_BodyIsAlwaysString ==
    (Ended /\ outcome.adapter_calls = 1) =>
        /\ Has(outcome.adapter_event, "body")
        /\ Get(outcome.adapter_event, "body").t = "str"

\* C9: once an event is classified, normalization does not raise: the invocation
\* goes on to the health shortcut or to the adapter, not to the error return.
C9_NormalizationNeverFails ==
    (Ended /\ outcome.event_type # "") =>
        \/ outcome.adapter_calls = 1
        \/ (outcome.done /\ outcome.caught = "none" /\ outcome.path \in HealthPaths)

\* the http sub-object of the normalized event
ProcessedHttp == Get(Get(outcome.processed, "requestContext"), "http")

\* C10: a direct_invocation event is converted with method POST and path
\* /api/process-audio where it gives none, routeKey "<method> <path>",
\* isBase64Encoded false where it gives none, and a body that is the serialization
\* of a dict body, a string body itself, and the serialization of the whole event
\* when it has no body; {"body": {"text": "hello"}} gives "POST /api/process-audio"
\* and {"text": "hello"}.
C10_DirectInvocationDefaults ==
    (Ended /\ outcome.event_type = "direct_invocation") =>
        LET pe == outcome.processed
        IN /\ pe.t = "dict"
           /\ (~Has(event, "httpMethod") /\ ~Has(event, "method")) =>
                 Get(ProcessedHttp, "method") = JStr("POST")
           /\ ~Has(event, "path") =>
                 /\ Get(ProcessedHttp, "path") = JStr("/api/process-audio")
                 /\ Get(pe, "rawPath") = JStr("/api/process-audio")
           /\ Get(pe, "routeKey") =
                 JStr(PyStr(Get(ProcessedHttp, "method")) \o " "
                      \o PyStr(Get(ProcessedHttp, "path")))
           /\ ~Has(event, "isBase64Encoded") => Get(pe, "isBase64Encoded") = JBool(FALSE)
           /\ (Has(event, "body") /\ Get(event, "body").t = "dict") =>
                 Get(pe, "body") = JStr(Dumps(Get(event, "body")))
           /\ (Has(event, "body") /\ Get(event, "body").t = "str") =>
                 Get(pe, "body") = Get(event, "body")
           /\ ~Has(event, "body") => Get(pe, "body") = JStr(Dumps(event))
           /\ event = JDict(<< <<"body", JDict(<< <<"text", JStr("hello")>> >>)>> >>) =>
                 /\ Get(pe, "routeKey") = JStr("POST /api/process-audio")
                 /\ Get(pe, "body") = JStr("{\"text\": \"hello\"}")
                 /\ Get(pe, "isBase64Encoded") = JBool(FALSE)

C10_Witness ==
    /\ Ended
    /\ event = JDict(<< <<"body", JDict(<< <<"text", JStr("hello")>> >>)>> >>)
    /\ outcome.event_type = "direct_invocation"
    /\ outcome.adapter_calls = 1
    /\ Get(outcome.adapter_event, "body") = JStr("{\"text\": \"hello\"}")

\* the api_gateway_v1 event of the specification's scenario
V1HealthEvent ==
    JDict(<< <<"httpMethod", JStr("GET")>>, <<"path", JStr("/health")>>,
             <<"requestContext", JDict(<<>>)>> >>)

\* C11: for an api_gateway_v1 event (a requestContext mapping, an httpMethod and a
\* path) the normalized event has requestContext.http.method and .path equal to the
\* event's httpMethod and path, routeKey "<httpMethod> <path>", and headers, body,
\* pathParameters and isBase64Encoded copied from the event (the conversion's
\* defaults where the event has none); the scenario event gets routeKey
\* "GET /health" and is answered by the health shortcut.
C11_V1Normalization ==
    (/\ Ended
     /\ outcome.event_type = "api_gateway_v1"
     /\ Has(event, "path")
     /\ Get(event, "requestContext").t = "dict") =>
        LET pe == outcome.processed
        IN /\ pe.t = "dict"
           /\ Get(ProcessedHttp, "method") = Get(event, "httpMethod")
           /\ Get(ProcessedHttp, "path") = Get(event, "path")
           /\ Get(pe, "routeKey") =
                 JStr(PyStr(Get(event, "httpMethod")) \o " " \o PyStr(Get(event, "path")))
           /\ Get(pe, "headers") = GetOr(event, "headers", JDict(<<>>))
           /\ Get(pe, "body") = GetOr(event, "body", JStr(""))
           /\ Get(pe, "pathParameters") = GetOr(event, "pathParameters", JDict(<<>>))
           /\ Get(pe, "isBase64Encoded") = GetOr(event, "isBase64Encoded", JBool(FALSE))
           /\ event = V1HealthEvent =>
                 /\ Get(pe, "routeKey") = JStr("GET /health")
                 /\ outcome.adapter_calls = 0
                 /\ outcome.done
                 /\ outcome.result.statusCode = 200
                 /\ Get(outcome.result.json, "status") = JStr("healthy")

C11_Witness ==
    /\ Returned
    /\ outcome.event_type = "api_gateway_v1"
    /\ Has(event, "headers")
    /\ Has(event, "isBase64Encoded")
    /\ Has(event, "body")
    /\ Get(event, "body") = JStr("raw text")
    /\ outcome.adapter_calls = 1
    /\ Get(outcome.adapter_event, "headers") = Get(event, "headers")
    /\ Get(outcome.adapter_event, "routeKey") = JStr("GET /api/transcribe")

C11_ScenarioWitness ==
    /\ Returned
    /\ event = V1HealthEvent
    /\ outcome.result.statusCode = 200

\* C12: a second call of setup_lambda_environment, from whatever state of /tmp and
\* of the environment the first call started in, leaves the directories and the
\* environment variables as the first call left them, returns what the first call
\* returned and does not raise.
C12_SetupIdempotent ==
    [][pc = "clients" =>
          /\ dirs' = dirs
          /\ environ' = environ
          /\ setup_ok' = setup_ok
          /\ pc' = "twice"]_vars

C12_Witness ==
    /\ pc = "twice"
    /\ setup_ok
    /\ dirs = {cache_dirs[i] : i \in 1..Len(cache_dirs)}
    /\ environ["WHISPER_CACHE"] = "/tmp/.cache/whisper"
    /\ environ["DEBUG"] = "1"

\* os.makedirs raised in setup_lambda_environment: /tmp is not writable and a cache
\* directory does not exist
MakedirsFailed == ~fs_writable /\ \E i \in 1..Len(cache_dirs) : cache_dirs[i] \notin dirs

\* C19: when creating a cache directory fails, setup_lambda_environment returns
\* False and raises nothing, the module goes on loading, and an invocation after
\* it (with a context the handler can read) returns a result.
C19_SetupFailureIsNotFatal ==
    (pc # "setup" /\ MakedirsFailed) =>
        /\ setup_ok = FALSE
        /\ pc # "crashed"
        /\ (Ended /\ request_id(context).exc = "none") => outcome.done

C19_Witness ==
    /\ Returned
    /\ MakedirsFailed
    /\ ~setup_ok
    /\ outcome.adapter_calls = 1
    /\ outcome.result.statusCode = 200

\* C13: with the fallback installed in place of the adapter, the invoke step of an
\* invocation gets a result with status 500 from it, not an exception.
C13_FallbackReturns500 ==
    (Ended /\ handler = "fallback" /\ outcome.adapter_calls = 1) =>
        /\ outcome.adapter_raised = "none"
        /\ outcome.response.statusCode = 500

\* what the wrapped application did in the current invocation, as a script
Scripted == IF adapter = NotCalled THEN Unscripted ELSE adapter

\* the message field of the body of a result
MessageOf(result) == Get(result.json, "message")

\* C14: the message of the 500 error result is the exception's text only when
\* DEBUG is set; when it is not, the message is 'An error occurred', and the run
\* that differs only in the exception's text returns the same message.
C14_MessageOnlyInDebug ==
    (Returned /\ outcome.caught # "none") =>
        LET raised == try_block(event, context, Scripted, cloudwatch)
            other  == lambda_handler(event, context,
                                     [Scripted EXCEPT !.msg = "connection string leaked"],
                                     cloudwatch)
        IN /\ outcome.result.statusCode = 500
           /\ outcome.result.body = Dumps(outcome.result.json)
           /\ Has(outcome.result.json, "message")
           /\ environ["DEBUG"] # "" => MessageOf(outcome.result) = JStr(raised.msg)
           /\ environ["DEBUG"] = "" =>
                 /\ MessageOf(outcome.result) = JStr("An error occurred")
                 /\ MessageOf(other.result) = MessageOf(outcome.result)

C14_Witness ==
    /\ Returned
    /\ environ["DEBUG"] = ""
    /\ adapter.exc = "RuntimeError"
    /\ outcome.caught = "RuntimeError"
    /\ MessageOf(outcome.result) = JStr("An error occurred")

\* the results the handler builds itself: the error result and the health result
BuiltByHandler == Returned /\ (outcome.caught # "none" \/ outcome.adapter_calls = 0)

\* C15: a result the handler builds itself (error path, health path) has a
\* Content-Type header, Access-Control-Allow-Origin '*' and the
\* Access-Control-Allow-Methods and Access-Control-Allow-Headers headers.
C15_HeadersOnBuiltResults ==
    BuiltByHandler =>
        /\ Has(outcome.result.headers, "Content-Type")
        /\ Has(outcome.result.headers, "Access-Control-Allow-Origin")
        /\ Get(outcome.result.headers, "Access-Control-Allow-Origin") = JStr("*")
        /\ Has(outcome.result.headers, "Access-Control-Allow-Methods")
        /\ Has(outcome.result.headers, "Access-Control-Allow-Headers")

\* the variables setup_lambda_environment writes
CacheVarNames == {env_vars[i][1] : i \in 1..Len(env_vars)}

\* C16: once setup_lambda_environment has run at module load, no step of the
\* process (module load going on, invocations of any outcome, their delivery)
\* changes the value of a cache environment variable.
C16_CacheVarsWrittenOnce ==
    [][pc # "setup" => \A k \in CacheVarNames : environ'[k] = environ[k]]_vars

C16_Witness ==
    /\ Returned
    /\ clock = 1
    /\ outcome.caught # "none"
    /\ setup_ok
    /\ \A i \in 1..Len(env_vars) : environ[env_vars[i][1]] = env_vars[i][2]

\* the event matches none of the four specific shapes
MatchesNoShape ==
    /\ ~IsV2
    /\ ~HasContextAndMethod
    /\ ~ContextHas("elb")
    /\ ~ContextHas("http")

\* C17: an event matching none of the four specific shapes, a null requestContext
\* included, is classified direct_invocation and normalized by
\* create_api_gateway_v2_event; classification does not fail.
C17_MalformedIsDirectInvocation ==
    (Ended /\ request_id(context).exc = "none" /\ MatchesNoShape) =>
        /\ outcome.event_type = "direct_invocation"
        /\ outcome.processed = create_api_gateway_v2_event(event)

\* C18: when the adapter returned a result, the handler returns that result.
C18_AdapterResultIsReturned ==
    (Ended /\ outcome.adapter_calls = 1 /\ outcome.adapter_raised = "none") =>
        /\ outcome.done
        /\ outcome.result = outcome.response

\* C20: an invocation calls the adapter at most once, and exactly once when the
\* event was classified and normalized, its path read, and the path is neither
\* /health nor /.
C20_AdapterCalledOnce ==
    Ended =>
        /\ outcome.adapter_calls <= 1
        /\ (/\ outcome.event_type # ""
            /\ outcome.processed # Absent
            /\ outcome.path # Absent
            /\ outcome.path \notin HealthPaths) => outcome.adapter_calls = 1

C20_Witness ==
    /\ Returned
    /\ outcome.adapter_calls = 1
    /\ outcome.adapter_raised = "ValueError"
    /\ outcome.path = JStr("/api/emotion")
    /\ outcome.event_type = "lambda_function_url"

\* the variables setup_lambda_environment sets to a path (TRANSFORMERS_OFFLINE is '0')
PathVarNames == CacheVarNames \ {"TRANSFORMERS_OFFLINE"}

\* C21: after a successful setup_lambda_environment every variable it set to a
\* path names one of the cache directories it created, and that directory exists.
C21_EnvPathsAreCreatedDirs ==
    (pc # "setup" /\ setup_ok) =>
        \A k \in PathVarNames :
            /\ environ[k] \in {cache_dirs[i] : i \in 1..Len(cache_dirs)}
            /\ environ[k] \in dirs

\* C22: an invocation never emits both APISuccess and APIError, and never emits
\* APIError more than once.
C22_OutcomeMetricsExclusive ==
    Ended =>
        /\ ~(MetricCount("APISuccess") >= 1 /\ MetricCount("APIError") >= 1)
        /\ MetricCount("APIError") <= 1

\* an event that carries requestContext.elb and is not version "2.0", classified
ElbEvent == Ended /\ outcome.event_type # "" /\ ContextHas("elb") /\ ~IsV2

\* C23 as stated: an event with requestContext.elb and a version other than "2.0"
\* is classified alb, a top-level httpMethod or not, and handed on as it came.
C23_ElbIsAlwaysAlb ==
    ElbEvent =>
        /\ outcome.event_type = "alb"
        /\ outcome.processed = event

\* C23 as amended: such an event is classified alb, and handed on to the adapter
\* as it came, when it has no top-level httpMethod; with a top-level httpMethod it
\* is classified api_gateway_v1 and is not handed on as it came.
C23_ElbIsAlbWithoutMethod ==
    ElbEvent =>
        /\ ~Has(event, "httpMethod") =>
              /\ outcome.event_type = "alb"
              /\ outcome.processed = event
              /\ outcome.adapter_calls = 1 => outcome.adapter_event = event
        /\ Has(event, "httpMethod") =>
              /\ outcome.event_type = "api_gateway_v1"
              /\ outcome.processed # event

C23_Witness ==
    /\ Returned
    /\ ContextHas("elb")
    /\ ~Has(event, "httpMethod")
    /\ Has(event, "body")
    /\ outcome.event_type = "alb"
    /\ outcome.adapter_calls = 1
    /\ outcome.adapter_event = event

\* the normalized event has an http sub-object under requestContext
ProcessedHasHttp ==
    /\ Has(outcome.processed, "requestContext")
    /\ Get(outcome.processed, "requestContext").t = "dict"
    /\ Has(Get(outcome.processed, "requestContext"), "http")

\* C24: the path the handler uses for the health decision and the metric
\* dimensions is the rawPath of the normalized event (an event whose http
\* sub-object names another path than its rawPath aside); for an event handed on
\* as it came without requestContext.http it is the event's rawPath, not the
\* default /api/process-audio.
C24_PathIsRawPath ==
    (/\ Ended
     /\ outcome.path # Absent
     /\ Has(outcome.processed, "rawPath")
     /\ ProcessedHasHttp => Get(ProcessedHttp, "path") = Get(outcome.processed, "rawPath")) =>
        outcome.path = Get(outcome.processed, "rawPath")

====
